---- MODULE Spec2Model ----
(***************************************************************************)
(* Flex-Time backend: the booking / time-credit engine.                    *)
(*                                                                         *)
(*   routes/bookings.js   POST /bookings and the duration calculator       *)
(*   routes/payments.js   create-payment-intent, webhook, payment-success  *)
(*   routes/classes.js    POST /classes                                    *)
(*   models/*.js          the Mongoose schemas                             *)
(*                                                                         *)
(* Every route handler is an async function: the code between two awaits   *)
(* runs atomically on the Node event loop, and other requests may run      *)
(* between them.  Each action below is one such segment.  A write to the   *)
(* store may fail (the driver throws), which sends the handler to its      *)
(* catch block; reads are taken to succeed.                                *)
(***************************************************************************)
EXTENDS Integers, Sequences, FiniteSets, TLC

(* ------------------------------ bounds -------------------------------- *)
MaxUsers == 2       \* registered users
MaxReq == 2         \* handler invocations in one behaviour

Users == 1..MaxUsers
Reqs == 1..MaxReq

\* The ids the Class and Package collections hand out.
ClassIds == {1, 2}
PkgIds == {1, 2}

(* ----------------------- duration calculator -------------------------- *)

\* Number() of a string of decimal digits (a sequence of characters).
DigitValue(ch) ==
    CASE ch = "0" -> 0 [] ch = "1" -> 1 [] ch = "2" -> 2 [] ch = "3" -> 3
      [] ch = "4" -> 4 [] ch = "5" -> 5 [] ch = "6" -> 6 [] ch = "7" -> 7
      [] ch = "8" -> 8 [] ch = "9" -> 9

RECURSIVE ToNumber(_)
ToNumber(s) ==
    IF s = << >> THEN 0
    ELSE 10 * ToNumber(SubSeq(s, 1, Len(s) - 1)) + DigitValue(s[Len(s)])

\* time.split(':') : the pieces before and after the first colon.
ColonAt(s) == CHOOSE i \in 1..Len(s) : s[i] = ":" /\ \A j \in 1..(i - 1) : s[j] # ":"
SplitTime(s) == << SubSeq(s, 1, ColonAt(s) - 1), SubSeq(s, ColonAt(s) + 1, Len(s)) >>

\* A calculator that drops the minute parts.
calculateMinutesBetweenTimesHoursOnly(startTime, endTime) ==
    LET startHour == ToNumber(SplitTime(startTime)[1])
        endHour   == ToNumber(SplitTime(endTime)[1])
    IN  (endHour - startHour) * 60

calculateMinutesBetweenTimes(startTime, endTime) ==
    LET startHour   == ToNumber(SplitTime(startTime)[1])
        startMinute == ToNumber(SplitTime(startTime)[2])
        endHour     == ToNumber(SplitTime(endTime)[1])
        endMinute   == ToNumber(SplitTime(endTime)[2])
    IN  (endHour * 60 + endMinute) - (startHour * 60 + startMinute)

\* A stored Date is a UTC calendar day and hour, [y, m, d, h].  JavaScript
\* keeps it as milliseconds since the epoch; the model counts hours since
\* the epoch, so a difference in ms / (1000*60*60*24) is a difference in
\* hours / HoursPerDay.
HoursPerDay == 24

IsLeap(y) == (y % 4 = 0 /\ y % 100 # 0) \/ y % 400 = 0
DaysInMonth(y, m) ==
    IF m = 2 THEN (IF IsLeap(y) THEN 29 ELSE 28)
    ELSE IF m \in {4, 6, 9, 11} THEN 30 ELSE 31

RECURSIVE DaysBeforeMonth(_, _)
DaysBeforeMonth(y, m) ==
    IF m = 1 THEN 0 ELSE DaysBeforeMonth(y, m - 1) + DaysInMonth(y, m - 1)

\* The leap years among 1..y, and the days from 1 January of the epoch
\* year to 1 January of year y.
EpochYear == 1970
LeapsThrough(y) == (y \div 4) - (y \div 100) + (y \div 400)
DaysBeforeYear(y) ==
    365 * (y - EpochYear) + LeapsThrough(y - 1) - LeapsThrough(EpochYear - 1)

\* Date.prototype.valueOf, in hours.
DateValue(dt) ==
    (DaysBeforeYear(dt.y) + DaysBeforeMonth(dt.y, dt.m) + (dt.d - 1)) * HoursPerDay + dt.h

\* Math.ceil(a / b) for b > 0 (a may be negative: \div rounds down).
CeilDiv(a, b) == -((-a) \div b)

\* String.prototype.toLowerCase on the frequency names and on other
\* spellings a stored document may carry.
ToLowerCase(s) ==
    CASE s = "Daily" -> "daily" [] s = "Weekly" -> "weekly"
      [] s = "Bi-weekly" -> "bi-weekly" [] s = "Monthly" -> "monthly"
      [] s = "DAILY" -> "daily" [] s = "WEEKLY" -> "weekly"
      [] s = "BI-WEEKLY" -> "bi-weekly" [] s = "MONTHLY" -> "monthly"
      [] s = "Yearly" -> "yearly" [] s = "Fortnightly" -> "fortnightly"
      [] OTHER -> s

\* getFullYear / getMonth (the server runs in UTC).
GetFullYear(dt) == dt.y
GetMonth(dt) == dt.m - 1

\* A calculator that counts the weekly and bi-weekly occurrences inclusive
\* of the first day, floor(days / period) + 1.
calculateRecurringClassMinutesInclusive(classDetails, singleClassMinutes) ==
    LET startDate == classDetails.date
        endDate   == classDetails.endDate
        daysDifference == CeilDiv(DateValue(endDate) - DateValue(startDate), HoursPerDay)
        freq == ToLowerCase(classDetails.frequency)
    IN  CASE freq = "daily"     -> (daysDifference + 1) * singleClassMinutes
          [] freq = "weekly"    -> ((daysDifference \div 7) + 1) * singleClassMinutes
          [] freq = "bi-weekly" -> ((daysDifference \div 14) + 1) * singleClassMinutes
          [] freq = "monthly"   ->
                ((GetFullYear(endDate) - GetFullYear(startDate)) * 12
                   + (GetMonth(endDate) - GetMonth(startDate)) + 1) * singleClassMinutes
          [] OTHER -> singleClassMinutes

\* A calculator that counts the monthly occurrences as elapsed 30-day months.
calculateRecurringClassMinutesElapsed(classDetails, singleClassMinutes) ==
    LET startDate == classDetails.date
        endDate   == classDetails.endDate
        daysDifference == CeilDiv(DateValue(endDate) - DateValue(startDate), HoursPerDay)
        freq == ToLowerCase(classDetails.frequency)
    IN  CASE freq = "daily"     -> (daysDifference + 1) * singleClassMinutes
          [] freq = "weekly"    -> CeilDiv(daysDifference, 7) * singleClassMinutes
          [] freq = "bi-weekly" -> CeilDiv(daysDifference, 14) * singleClassMinutes
          [] freq = "monthly"   -> CeilDiv(daysDifference, 30) * singleClassMinutes
          [] OTHER -> singleClassMinutes

\* A calculator whose daily branch leaves out the + 1.
calculateRecurringClassMinutesExclusive(classDetails, singleClassMinutes) ==
    LET startDate == classDetails.date
        endDate   == classDetails.endDate
        daysDifference == CeilDiv(DateValue(endDate) - DateValue(startDate), HoursPerDay)
        freq == ToLowerCase(classDetails.frequency)
    IN  CASE freq = "daily"     -> daysDifference * singleClassMinutes
          [] freq = "weekly"    -> CeilDiv(daysDifference, 7) * singleClassMinutes
          [] freq = "bi-weekly" -> CeilDiv(daysDifference, 14) * singleClassMinutes
          [] freq = "monthly"   ->
                ((GetFullYear(endDate) - GetFullYear(startDate)) * 12
                   + (GetMonth(endDate) - GetMonth(startDate)) + 1) * singleClassMinutes
          [] OTHER -> singleClassMinutes

\* A calculator without the default branch's fallback: an unknown frequency
\* is charged nothing.
calculateRecurringClassMinutesNoDefault(classDetails, singleClassMinutes) ==
    LET startDate == classDetails.date
        endDate   == classDetails.endDate
        daysDifference == CeilDiv(DateValue(endDate) - DateValue(startDate), HoursPerDay)
        freq == ToLowerCase(classDetails.frequency)
    IN  CASE freq = "daily"     -> (daysDifference + 1) * singleClassMinutes
          [] freq = "weekly"    -> CeilDiv(daysDifference, 7) * singleClassMinutes
          [] freq = "bi-weekly" -> CeilDiv(daysDifference, 14) * singleClassMinutes
          [] freq = "monthly"   ->
                ((GetFullYear(endDate) - GetFullYear(startDate)) * 12
                   + (GetMonth(endDate) - GetMonth(startDate)) + 1) * singleClassMinutes
          [] OTHER -> 0

calculateRecurringClassMinutes(classDetails, singleClassMinutes) ==
    LET startDate == classDetails.date
        endDate   == classDetails.endDate
        daysDifference == CeilDiv(DateValue(endDate) - DateValue(startDate), HoursPerDay)
        freq == ToLowerCase(classDetails.frequency)
    IN  CASE freq = "daily"     -> (daysDifference + 1) * singleClassMinutes
          [] freq = "weekly"    -> CeilDiv(daysDifference, 7) * singleClassMinutes
          [] freq = "bi-weekly" -> CeilDiv(daysDifference, 14) * singleClassMinutes
          [] freq = "monthly"   ->
                ((GetFullYear(endDate) - GetFullYear(startDate)) * 12
                   + (GetMonth(endDate) - GetMonth(startDate)) + 1) * singleClassMinutes
          [] OTHER -> singleClassMinutes

\* Mutant: a recurring class is charged as a single class.
TotalMinutesSingle(classDetails) ==
    calculateMinutesBetweenTimes(classDetails.startTime, classDetails.endTime)

\* bookings.js 181-190: the minutes a booking of this class costs.
TotalMinutes(classDetails) ==
    LET singleClassMinutes ==
            calculateMinutesBetweenTimes(classDetails.startTime, classDetails.endTime)
    IN  IF classDetails.isRecurringClass
        THEN calculateRecurringClassMinutes(classDetails, singleClassMinutes)
        ELSE singleClassMinutes

(* ------------------------------- state -------------------------------- *)
VARIABLES
    classes,            \* Class collection: ClassIds -> class document or NoDoc
    attendees,          \* Class.attendees of each class, a list of user ids
    bookings,           \* Booking collection: a set of documents, _id = the request that saved it
    remainingMinutes,   \* User.remainingMinutes of each user
    packages,           \* Package collection: PkgIds -> package document or NoDoc
    intents,            \* payment provider: status of the payment intent of each package
    events,             \* payment provider: the signed events it has emitted
    req,                \* the handler invocations: position and locals of each
    creditCount         \* history: how often hours*60 was added on account of each package

vars == << classes, attendees, bookings, remainingMinutes, packages, intents, events,
           req, creditCount >>

NoDoc == [exists |-> FALSE]

\* An invocation that has not arrived yet.
Idle == [kind |-> "none", pc |-> "idle", userId |-> 0, classId |-> 0, intent |-> 0,
         event |-> "none", snap |-> << >>, total |-> 0, resp |-> "none", applied |-> {}]

\* Request bodies of POST /classes used to populate the Class collection.
ClassBodies ==
    { [maxCapacity |-> 1,
       startTime |-> <<"1","0",":","0","0">>, endTime |-> <<"1","1",":","0","0">>,
       date |-> [y |-> 2024, m |-> 1, d |-> 1, h |-> 0],
       isRecurringClass |-> FALSE, frequency |-> "none",
       endDate |-> [y |-> 2024, m |-> 1, d |-> 1, h |-> 0]],
      [maxCapacity |-> 2,
       startTime |-> <<"0","9",":","3","0">>, endTime |-> <<"1","0",":","1","5">>,
       date |-> [y |-> 2024, m |-> 1, d |-> 1, h |-> 0],
       isRecurringClass |-> TRUE, frequency |-> "Weekly",
       endDate |-> [y |-> 2024, m |-> 1, d |-> 15, h |-> 0]] }

\* models/User.js: remainingMinutes defaults to 0.
DefaultRemainingMinutes == 0

Init ==
    /\ classes = [c \in ClassIds |-> NoDoc]
    /\ attendees = [c \in ClassIds |-> << >>]
    /\ bookings = {}
    /\ remainingMinutes = [u \in Users |-> DefaultRemainingMinutes]
    /\ packages = [p \in PkgIds |-> NoDoc]
    /\ intents = [p \in PkgIds |-> "none"]
    /\ events = {}
    /\ req = [r \in Reqs |-> Idle]
    /\ creditCount = [p \in PkgIds |-> 0]

(* --------------------------- POST /classes ----------------------------- *)

\* The handler validates the body and saves one new Class with attendees [].
\* Class ids are handed out in order.
CreateClass(c, body) ==
    /\ ~classes[c].exists
    /\ \A d \in ClassIds : d < c => classes[d].exists
    /\ body.maxCapacity # 0
    /\ classes' = [classes EXCEPT ![c] =
                      [exists |-> TRUE, maxCapacity |-> body.maxCapacity,
                       startTime |-> body.startTime, endTime |-> body.endTime,
                       date |-> body.date, isRecurringClass |-> body.isRecurringClass,
                       frequency |-> body.frequency, endDate |-> body.endDate]]
    /\ attendees' = [attendees EXCEPT ![c] = << >>]
    /\ UNCHANGED << bookings, remainingMinutes, packages, intents, events, req, creditCount >>

(* --------------------------- POST /bookings ---------------------------- *)

\* Invocation slots are taken in order (they are interchangeable).
CanArrive(r) ==
    /\ req[r].pc = "idle"
    /\ \A q \in Reqs : q < r => req[q].pc # "idle"

\* The handler answers and returns: its locals are gone.
Finish(rec, resp) ==
    [rec EXCEPT !.pc = "done", !.resp = resp, !.snap = << >>, !.total = 0]

\* Mutant: the lookup filters with the two ids exchanged.
ExistingBookingSwapped(userId, classId) ==
    \E b \in bookings : b.userId = classId /\ b.classId = userId

\* Booking.findOne({ userId, classId })
ExistingBooking(userId, classId) ==
    \E b \in bookings : b.userId = userId /\ b.classId = classId

\* Mutant: the capacity check compares with > instead of >=.
ClassIsFullStrict(attendeeList, maxCapacity) == Len(attendeeList) > maxCapacity

\* classDetails.attendees.length >= classDetails.maxCapacity
ClassIsFull(attendeeList, maxCapacity) == Len(attendeeList) >= maxCapacity

\* 161-168: the request arrives; Class.findById(classId).  classId may name
\* no stored class.
BookFindClass(r, userId, classId) ==
    /\ CanArrive(r)
    /\ LET rec == [Idle EXCEPT !.kind = "book", !.userId = userId, !.classId = classId]
       IN  IF ~classes[classId].exists
           THEN req' = [req EXCEPT ![r] = Finish(rec, "404 class not found")]
           ELSE req' = [req EXCEPT ![r] =
                           [rec EXCEPT !.pc = "findBooking", !.snap = attendees[classId]]]
    /\ UNCHANGED << classes, attendees, bookings, remainingMinutes, packages, intents,
                    events, creditCount >>

\* Mutant: the capacity check comes before the existing-booking check.
BookVerdictFullFirst(existingBooking, full) ==
    IF full THEN "400 class full"
    ELSE IF existingBooking THEN "400 already booked"
    ELSE "ok"

\* 172-179: the order of the two rejections.
BookVerdict(existingBooking, full) ==
    IF existingBooking THEN "400 already booked"
    ELSE IF full THEN "400 class full"
    ELSE "ok"

\* A handler with a floor check: it refuses a user whose balance does not
\* cover the class.
BookCheckFloor(r) ==
    /\ req[r].kind = "book" /\ req[r].pc = "findBooking"
    /\ LET rec == req[r]
           classDetails == classes[rec.classId]
           verdict == BookVerdict(ExistingBooking(rec.userId, rec.classId),
                                  ClassIsFull(rec.snap, classDetails.maxCapacity))
       IN  IF verdict # "ok"
           THEN req' = [req EXCEPT ![r] = Finish(rec, verdict)]
           ELSE IF remainingMinutes[rec.userId] < TotalMinutes(classDetails)
           THEN req' = [req EXCEPT ![r] = Finish(rec, "400 insufficient minutes")]
           ELSE req' = [req EXCEPT ![r] =
                           [rec EXCEPT !.pc = "saveBooking",
                                       !.total = TotalMinutes(classDetails)]]
    /\ UNCHANGED << classes, attendees, bookings, remainingMinutes, packages, intents,
                    events, creditCount >>

\* 170-197: Booking.findOne, then the capacity check on the class document
\* read before, then the duration.
BookCheck(r) ==
    /\ req[r].kind = "book" /\ req[r].pc = "findBooking"
    /\ LET rec == req[r]
           classDetails == classes[rec.classId]
           verdict == BookVerdict(ExistingBooking(rec.userId, rec.classId),
                                  ClassIsFull(rec.snap, classDetails.maxCapacity))
       IN  IF verdict # "ok"
           THEN req' = [req EXCEPT ![r] = Finish(rec, verdict)]
           ELSE req' = [req EXCEPT ![r] =
                           [rec EXCEPT !.pc = "saveBooking",
                                       !.total = TotalMinutes(classDetails)]]
    /\ UNCHANGED << classes, attendees, bookings, remainingMinutes, packages, intents,
                    events, creditCount >>

\* A save that also rewrites the minutes of the user's earlier Bookings.
BookSaveRewriting(r) ==
    /\ req[r].kind = "book" /\ req[r].pc = "saveBooking"
    /\ LET rec == req[r]
       IN  \/ /\ bookings' =
                     {IF b.userId = rec.userId
                      THEN [b EXCEPT !.minutesSpent = rec.total] ELSE b : b \in bookings}
                     \cup {[id |-> r, userId |-> rec.userId, classId |-> rec.classId,
                            minutesSpent |-> rec.total]}
              /\ req' = [req EXCEPT ![r] =
                            [rec EXCEPT !.pc = "debit", !.applied = @ \cup {"booking"}]]
           \/ /\ req' = [req EXCEPT ![r] = Finish(rec, "500")]
              /\ UNCHANGED bookings
    /\ UNCHANGED << classes, attendees, remainingMinutes, packages, intents, events,
                    creditCount >>

\* 199-200: newBooking.save()
BookSave(r) ==
    /\ req[r].kind = "book" /\ req[r].pc = "saveBooking"
    /\ LET rec == req[r]
       IN  \/ /\ bookings' = bookings \cup
                     {[id |-> r, userId |-> rec.userId, classId |-> rec.classId,
                       minutesSpent |-> rec.total]}
              /\ req' = [req EXCEPT ![r] =
                            [rec EXCEPT !.pc = "debit", !.applied = @ \cup {"booking"}]]
           \/ /\ req' = [req EXCEPT ![r] = Finish(rec, "500")]
              /\ UNCHANGED bookings
    /\ UNCHANGED << classes, attendees, remainingMinutes, packages, intents, events,
                    creditCount >>

\* 202-206: User.findByIdAndUpdate(userId, { $inc: { remainingMinutes: -totalMinutes } })
BookDebit(r) ==
    /\ req[r].kind = "book" /\ req[r].pc = "debit"
    /\ LET rec == req[r]
       IN  \/ /\ remainingMinutes' =
                     [remainingMinutes EXCEPT ![rec.userId] = @ - rec.total]
              /\ req' = [req EXCEPT ![r] =
                            [rec EXCEPT !.pc = "push", !.applied = @ \cup {"debit"}]]
           \/ /\ req' = [req EXCEPT ![r] = Finish(rec, "500")]
              /\ UNCHANGED remainingMinutes
    /\ UNCHANGED << classes, attendees, bookings, packages, intents, events, creditCount >>

\* 208-248: Class.findByIdAndUpdate(classId, { $push: { attendees: userId } }),
\* then the booking is read back and answered with 201.
BookPush(r) ==
    /\ req[r].kind = "book" /\ req[r].pc = "push"
    /\ LET rec == req[r]
       IN  \/ /\ attendees' = [attendees EXCEPT ![rec.classId] = Append(@, rec.userId)]
              /\ req' = [req EXCEPT ![r] =
                            Finish([rec EXCEPT !.applied = @ \cup {"attendee"}], "201")]
           \/ /\ req' = [req EXCEPT ![r] = Finish(rec, "500")]
              /\ UNCHANGED attendees
    /\ UNCHANGED << classes, bookings, remainingMinutes, packages, intents, events,
                    creditCount >>

(* --------------------- POST /payments/create-payment-intent ------------ *)

\* The Package the payment behaviours create themselves.
FirstPkg == CHOOSE p \in PkgIds : \A q \in PkgIds : p <= q

\* payments.js 9-20: PACKAGES[packageType].hours
PackageHours(packageType) ==
    CASE packageType = "standard" -> 10
      [] packageType = "premium"  -> 20

PackageTypes == {"standard", "premium"}

\* 54-104: save the pending Package, create the payment intent at the
\* provider, save the intent id on the Package.  outcome says how far the
\* handler gets before a call fails: "noIntent" (the provider call fails),
\* "unlinked" (the second save fails), "linked" (200).  The intent of package
\* p is named p.
CreatePaymentIntent(p, userId, packageType, outcome) ==
    /\ ~packages[p].exists
    /\ \A q \in PkgIds : q < p => packages[q].exists
    /\ packages' = [packages EXCEPT ![p] =
                       [exists |-> TRUE, userId |-> userId, packageType |-> packageType,
                        hours |-> PackageHours(packageType), status |-> "pending",
                        stripePaymentIntentId |-> IF outcome = "linked" THEN p ELSE 0]]
    /\ intents' = [intents EXCEPT ![p] = IF outcome = "noIntent" THEN "none" ELSE "open"]
    /\ UNCHANGED << classes, attendees, bookings, remainingMinutes, events, req, creditCount >>

(* --------------------------- payment provider -------------------------- *)

\* The customer pays: the intent succeeds (for good) and the provider emits
\* payment_intent.succeeded.
ProviderSucceed(p) ==
    /\ intents[p] \in {"open", "failed"}
    /\ intents' = [intents EXCEPT ![p] = "succeeded"]
    /\ events' = events \cup {<< "payment_intent.succeeded", p >>}
    /\ UNCHANGED << classes, attendees, bookings, remainingMinutes, packages, req, creditCount >>

\* A payment attempt is declined: the provider emits
\* payment_intent.payment_failed; the customer may try again.
ProviderFail(p) ==
    /\ intents[p] = "open"
    /\ intents' = [intents EXCEPT ![p] = "failed"]
    /\ events' = events \cup {<< "payment_intent.payment_failed", p >>}
    /\ UNCHANGED << classes, attendees, bookings, remainingMinutes, packages, req, creditCount >>

(* ------------------------ POST /payments/webhook ----------------------- *)

\* Package.findOne({ stripePaymentIntentId }) : the package ids that match.
PackageOfIntent(intent) ==
    { p \in PkgIds : packages[p].exists /\ packages[p].stripePaymentIntentId = intent }

\* package.status = 'paid'; package.save() on a document read with status
\* snap: Mongoose writes the modified paths only.
SavePaid(p, snap) ==
    IF snap = "paid" THEN packages
    ELSE [packages EXCEPT ![p].status = "paid"]

\* Mutant: the webhook credits remainingMinutes as the confirmation does.
WebhookCreditMinutes(userId, hours) ==
    [remainingMinutes EXCEPT ![userId] = @ + hours * 60]

\* 157-160: { $inc: { remainingHours: package.hours } }.  remainingHours is
\* no path of userSchema, so under the schema's strict mode the update
\* holds nothing: remainingMinutes is left as it is.
WebhookCredit(userId, hours) == remainingMinutes

\* 239-242: { $inc: { remainingMinutes: package.hours * 60 } }
ConfirmCreditUser(userId, hours) ==
    [remainingMinutes EXCEPT ![userId] = @ + hours * 60]

\* History: one more credit on account of package p when the update changed
\* a balance.
Credited(p, newRemainingMinutes) ==
    IF newRemainingMinutes # remainingMinutes
    THEN [creditCount EXCEPT ![p] = @ + 1]
    ELSE creditCount

\* 143, 169: the event types a payload can name.
EventTypes == {"payment_intent.succeeded", "payment_intent.payment_failed", "other"}

\* A handler that skips verification: it answers 400 but has already applied
\* the failure event its payload names.
WebhookBadSignatureTrusted(r, type, p) ==
    /\ CanArrive(r)
    /\ req' = [req EXCEPT ![r] = Finish([Idle EXCEPT !.kind = "webhook"], "400")]
    /\ packages' = [q \in PkgIds |->
          IF type = "payment_intent.payment_failed" /\ packages[q].exists
             /\ packages[q].stripePaymentIntentId = p
          THEN [packages[q] EXCEPT !.status = "failed"] ELSE packages[q]]
    /\ UNCHANGED << classes, attendees, bookings, remainingMinutes, intents,
                    events, creditCount >>

\* 128-140: constructEvent throws on a bad signature, whatever event type and
\* payment-intent id the payload names; event is never assigned.
WebhookBadSignature(r, type, p) ==
    /\ CanArrive(r)
    /\ req' = [req EXCEPT ![r] = Finish([Idle EXCEPT !.kind = "webhook"], "400")]
    /\ UNCHANGED << classes, attendees, bookings, remainingMinutes, packages, intents,
                    events, creditCount >>

\* A success branch that answers 404 when no Package carries the intent id.
WebhookSucceededStrict(r, p) ==
    /\ CanArrive(r)
    /\ << "payment_intent.succeeded", p >> \in events
    /\ LET rec == [Idle EXCEPT !.kind = "webhook", !.intent = p,
                               !.event = "payment_intent.succeeded"]
       IN  IF PackageOfIntent(p) = {}
           THEN req' = [req EXCEPT ![r] = Finish(rec, "404")]
           ELSE req' = [req EXCEPT ![r] =
                           [rec EXCEPT !.pc = "whSave", !.snap = << packages[p].status >>]]
    /\ UNCHANGED << classes, attendees, bookings, remainingMinutes, packages, intents,
                    events, creditCount >>

\* 143-152: a signed payment_intent.succeeded event (the provider delivers
\* an event it has emitted any number of times, in any order); Package.findOne.
WebhookSucceeded(r, p) ==
    /\ CanArrive(r)
    /\ << "payment_intent.succeeded", p >> \in events
    /\ LET rec == [Idle EXCEPT !.kind = "webhook", !.intent = p,
                               !.event = "payment_intent.succeeded"]
       IN  IF PackageOfIntent(p) = {}
           THEN req' = [req EXCEPT ![r] = Finish(rec, "200")]
           ELSE req' = [req EXCEPT ![r] =
                           [rec EXCEPT !.pc = "whSave", !.snap = << packages[p].status >>]]
    /\ UNCHANGED << classes, attendees, bookings, remainingMinutes, packages, intents,
                    events, creditCount >>

\* 153-154 (and the catch, 162-165)
WebhookSave(r) ==
    /\ req[r].kind = "webhook" /\ req[r].pc = "whSave"
    /\ LET rec == req[r]
       IN  \/ /\ packages' = SavePaid(rec.intent, rec.snap[1])
              /\ req' = [req EXCEPT ![r] = [rec EXCEPT !.pc = "whCredit"]]
           \/ /\ rec.snap[1] # "paid"
              /\ req' = [req EXCEPT ![r] = Finish(rec, "500")]
              /\ UNCHANGED packages
    /\ UNCHANGED << classes, attendees, bookings, remainingMinutes, intents, events,
                    creditCount >>

\* 156-160, 183 (and the catch)
WebhookUpdateUser(r) ==
    /\ req[r].kind = "webhook" /\ req[r].pc = "whCredit"
    /\ LET rec == req[r]
           package == packages[rec.intent]
       IN  \/ /\ remainingMinutes' = WebhookCredit(package.userId, package.hours)
              /\ creditCount' = Credited(rec.intent, remainingMinutes')
              /\ req' = [req EXCEPT ![r] = Finish(rec, "200")]
           \/ /\ req' = [req EXCEPT ![r] = Finish(rec, "500")]
              /\ UNCHANGED << remainingMinutes, creditCount >>
    /\ UNCHANGED << classes, attendees, bookings, packages, intents, events >>

\* A failure branch whose update has no filter: it marks every Package failed.
WebhookFailedUnfiltered(r, p) ==
    /\ CanArrive(r)
    /\ << "payment_intent.payment_failed", p >> \in events
    /\ LET rec == [Idle EXCEPT !.kind = "webhook", !.intent = p,
                               !.event = "payment_intent.payment_failed"]
       IN  \/ /\ packages' = [q \in PkgIds |->
                     IF packages[q].exists
                     THEN [packages[q] EXCEPT !.status = "failed"] ELSE packages[q]]
              /\ req' = [req EXCEPT ![r] = Finish(rec, "200")]
           \/ /\ req' = [req EXCEPT ![r] = Finish(rec, "500")]
              /\ UNCHANGED packages
    /\ UNCHANGED << classes, attendees, bookings, remainingMinutes, intents, events,
                    creditCount >>

\* 169-183: a signed payment_intent.payment_failed event;
\* Package.findOneAndUpdate({ stripePaymentIntentId }, { status: 'failed' }).
WebhookFailed(r, p) ==
    /\ CanArrive(r)
    /\ << "payment_intent.payment_failed", p >> \in events
    /\ LET rec == [Idle EXCEPT !.kind = "webhook", !.intent = p,
                               !.event = "payment_intent.payment_failed"]
       IN  \/ /\ packages' = [q \in PkgIds |->
                     IF q \in PackageOfIntent(p)
                     THEN [packages[q] EXCEPT !.status = "failed"] ELSE packages[q]]
              /\ req' = [req EXCEPT ![r] = Finish(rec, "200")]
           \/ /\ req' = [req EXCEPT ![r] = Finish(rec, "500")]
              /\ UNCHANGED packages
    /\ UNCHANGED << classes, attendees, bookings, remainingMinutes, intents, events,
                    creditCount >>

\* 143, 169, 183: a signed event of any other type matches neither branch.
WebhookOtherEvent(r) ==
    /\ CanArrive(r)
    /\ req' = [req EXCEPT ![r] =
                  Finish([Idle EXCEPT !.kind = "webhook", !.event = "other"], "200")]
    /\ UNCHANGED << classes, attendees, bookings, remainingMinutes, packages, intents,
                    events, creditCount >>

(* --------------------- POST /payments/payment-success ------------------ *)

\* Mutant: the handler does not look at the status the provider reports.
ConfirmRetrieveUnverified(r, userId, p) ==
    /\ CanArrive(r)
    /\ LET rec == [Idle EXCEPT !.kind = "confirm", !.userId = userId, !.intent = p]
       IN  req' = [req EXCEPT ![r] =
                      IF intents[p] = "none" THEN Finish(rec, "500")
                      ELSE [rec EXCEPT !.pc = "cfFind"]]
    /\ UNCHANGED << classes, attendees, bookings, remainingMinutes, packages, intents,
                    events, creditCount >>

\* 224-228, 245-250: stripe.paymentIntents.retrieve(payment_intent_id)
ConfirmRetrieve(r, userId, p) ==
    /\ CanArrive(r)
    /\ LET rec == [Idle EXCEPT !.kind = "confirm", !.userId = userId, !.intent = p]
       IN  req' = [req EXCEPT ![r] =
                      IF intents[p] = "none" THEN Finish(rec, "500")
                      ELSE IF intents[p] # "succeeded" THEN Finish(rec, "400")
                      ELSE [rec EXCEPT !.pc = "cfFind"]]
    /\ UNCHANGED << classes, attendees, bookings, remainingMinutes, packages, intents,
                    events, creditCount >>

\* A lookup that treats a missing Package as nothing to do and answers 200.
ConfirmFindLenient(r) ==
    /\ req[r].kind = "confirm" /\ req[r].pc = "cfFind"
    /\ LET rec == req[r]
       IN  req' = [req EXCEPT ![r] =
                      IF PackageOfIntent(rec.intent) = {} THEN Finish(rec, "200")
                      ELSE [rec EXCEPT !.pc = "cfSave",
                                       !.snap = << packages[rec.intent].status >>]]
    /\ UNCHANGED << classes, attendees, bookings, remainingMinutes, packages, intents,
                    events, creditCount >>

\* 229-233: Package.findOne.  With no package, line 240 reads
\* package.userId of null, which throws into the catch.
ConfirmFind(r) ==
    /\ req[r].kind = "confirm" /\ req[r].pc = "cfFind"
    /\ LET rec == req[r]
       IN  req' = [req EXCEPT ![r] =
                      IF PackageOfIntent(rec.intent) = {} THEN Finish(rec, "500")
                      ELSE [rec EXCEPT !.pc = "cfSave",
                                       !.snap = << packages[rec.intent].status >>]]
    /\ UNCHANGED << classes, attendees, bookings, remainingMinutes, packages, intents,
                    events, creditCount >>

\* 234-235
ConfirmSave(r) ==
    /\ req[r].kind = "confirm" /\ req[r].pc = "cfSave"
    /\ LET rec == req[r]
       IN  \/ /\ packages' = SavePaid(rec.intent, rec.snap[1])
              /\ req' = [req EXCEPT ![r] = [rec EXCEPT !.pc = "cfCredit"]]
           \/ /\ rec.snap[1] # "paid"
              /\ req' = [req EXCEPT ![r] = Finish(rec, "500")]
              /\ UNCHANGED packages
    /\ UNCHANGED << classes, attendees, bookings, remainingMinutes, intents, events,
                    creditCount >>

\* A credit that goes to the authenticated caller, req.user.id.
ConfirmCreditCaller(r) ==
    /\ req[r].kind = "confirm" /\ req[r].pc = "cfCredit"
    /\ LET rec == req[r]
           package == packages[rec.intent]
       IN  \/ /\ remainingMinutes' = ConfirmCreditUser(rec.userId, package.hours)
              /\ creditCount' = Credited(rec.intent, remainingMinutes')
              /\ req' = [req EXCEPT ![r] = Finish(rec, "200")]
           \/ /\ req' = [req EXCEPT ![r] = Finish(rec, "500")]
              /\ UNCHANGED << remainingMinutes, creditCount >>
    /\ UNCHANGED << classes, attendees, bookings, packages, intents, events >>

\* 239-244
ConfirmCredit(r) ==
    /\ req[r].kind = "confirm" /\ req[r].pc = "cfCredit"
    /\ LET rec == req[r]
           package == packages[rec.intent]
       IN  \/ /\ remainingMinutes' = ConfirmCreditUser(package.userId, package.hours)
              /\ creditCount' = Credited(rec.intent, remainingMinutes')
              /\ req' = [req EXCEPT ![r] = Finish(rec, "200")]
           \/ /\ req' = [req EXCEPT ![r] = Finish(rec, "500")]
              /\ UNCHANGED << remainingMinutes, creditCount >>
    /\ UNCHANGED << classes, attendees, bookings, packages, intents, events >>

(* ---------------------------- specifications --------------------------- *)

\* The booking handlers and the payment handlers share one field,
\* User.remainingMinutes, which both only update by an atomic $inc and
\* neither reads: the two halves are explored separately.

BookingNext ==
    \/ \E c \in ClassIds, body \in ClassBodies : CreateClass(c, body)
    \/ \E r \in Reqs, u \in Users, c \in ClassIds : BookFindClass(r, u, c)
    \/ \E r \in Reqs : BookCheck(r)
    \/ \E r \in Reqs : BookSave(r)
    \/ \E r \in Reqs : BookDebit(r)
    \/ \E r \in Reqs : BookPush(r)

PaymentNext ==
    \/ \E p \in {FirstPkg}, u \in Users, t \in PackageTypes,
          o \in {"noIntent", "unlinked", "linked"} : CreatePaymentIntent(p, u, t, o)
    \/ \E p \in PkgIds : ProviderSucceed(p)
    \/ \E p \in PkgIds : ProviderFail(p)
    \/ \E r \in Reqs, type \in EventTypes, p \in PkgIds : WebhookBadSignature(r, type, p)
    \/ \E r \in Reqs, p \in PkgIds : WebhookSucceeded(r, p)
    \/ \E r \in Reqs : WebhookSave(r)
    \/ \E r \in Reqs : WebhookUpdateUser(r)
    \/ \E r \in Reqs, p \in PkgIds : WebhookFailed(r, p)
    \/ \E r \in Reqs : WebhookOtherEvent(r)
    \/ \E r \in Reqs, u \in Users, p \in PkgIds : ConfirmRetrieve(r, u, p)
    \/ \E r \in Reqs : ConfirmFind(r)
    \/ \E r \in Reqs : ConfirmSave(r)
    \/ \E r \in Reqs : ConfirmCredit(r)

\* The payment handlers over two purchases made before by two users: both
\* Packages are pending and carry their payment-intent id.
PurchasedInit ==
    /\ classes = [c \in ClassIds |-> NoDoc]
    /\ attendees = [c \in ClassIds |-> << >>]
    /\ bookings = {}
    /\ remainingMinutes = [u \in Users |-> DefaultRemainingMinutes]
    /\ packages = [p \in PkgIds |->
              [exists |-> TRUE,
               userId |-> IF p \in Users THEN p ELSE 1,
               packageType |-> IF p = FirstPkg THEN "standard" ELSE "premium",
               hours |-> PackageHours(IF p = FirstPkg THEN "standard" ELSE "premium"),
               status |-> "pending", stripePaymentIntentId |-> p]]
    /\ intents = [p \in PkgIds |-> "open"]
    /\ events = {}
    /\ req = [r \in Reqs |-> Idle]
    /\ creditCount = [p \in PkgIds |-> 0]

PurchasedNext ==
    \/ \E p \in PkgIds : ProviderSucceed(p)
    \/ \E p \in PkgIds : ProviderFail(p)
    \/ \E r \in Reqs, type \in EventTypes, p \in PkgIds : WebhookBadSignature(r, type, p)
    \/ \E r \in Reqs, p \in PkgIds : WebhookSucceeded(r, p)
    \/ \E r \in Reqs : WebhookSave(r)
    \/ \E r \in Reqs : WebhookUpdateUser(r)
    \/ \E r \in Reqs, p \in PkgIds : WebhookFailed(r, p)
    \/ \E r \in Reqs : WebhookOtherEvent(r)
    \/ \E r \in Reqs, u \in Users, p \in PkgIds : ConfirmRetrieve(r, u, p)
    \/ \E r \in Reqs : ConfirmFind(r)
    \/ \E r \in Reqs : ConfirmSave(r)
    \/ \E r \in Reqs : ConfirmCredit(r)

Next == BookingNext \/ PaymentNext

(* ------------------ the duration calculator on its own ----------------- *)

\* An HH:MM time string, two digits each.
DigitChar(n) ==
    CASE n = 0 -> "0" [] n = 1 -> "1" [] n = 2 -> "2" [] n = 3 -> "3" [] n = 4 -> "4"
      [] n = 5 -> "5" [] n = 6 -> "6" [] n = 7 -> "7" [] n = 8 -> "8" [] n = 9 -> "9"
TimeString(h, m) ==
    << DigitChar(h \div 10), DigitChar(h % 10), ":", DigitChar(m \div 10), DigitChar(m % 10) >>

\* The first day of the month after dt's, and the day n days after dt at
\* hour h, found by walking the calendar month by month.
NextMonth(dt) ==
    IF dt.m < 12 THEN [dt EXCEPT !.m = @ + 1, !.d = 1]
    ELSE [dt EXCEPT !.y = @ + 1, !.m = 1, !.d = 1]

RECURSIVE AddDays(_, _)
AddDays(dt, n) ==
    IF dt.d + n <= DaysInMonth(dt.y, dt.m) THEN [dt EXCEPT !.d = @ + n]
    ELSE AddDays(NextMonth(dt), n - (DaysInMonth(dt.y, dt.m) - dt.d + 1))
DayAfter(dt, n, h) == [AddDays(dt, n) EXCEPT !.h = h]

\* The inputs: times of day, class dates, and the distance to endDate in
\* whole days plus hours.
CalcHours == {0, 9, 10, 11, 23}
CalcMinutes == {0, 5, 30, 59}
CalcDates == { [y |-> 2024, m |-> 1, d |-> 1, h |-> 0],
               [y |-> 2024, m |-> 1, d |-> 15, h |-> 0],
               [y |-> 2023, m |-> 12, d |-> 25, h |-> 0] }
CalcDayOffsets == {0, 1, 7, 8, 14, 15, 28, 55}
CalcHourOffsets == {0, 12}
CalcSeriesTimes == { << TimeString(10, 0), TimeString(11, 0) >>,
                     << TimeString(9, 30), TimeString(10, 5) >> }
Frequencies == {"Daily", "Weekly", "Bi-weekly", "Monthly"}

\* Class documents as POST /classes stores them: single classes over all
\* pairs of times, recurring classes over all dates and frequencies.
CalcClasses ==
    { [exists |-> TRUE, maxCapacity |-> 1,
       startTime |-> TimeString(sh, sm), endTime |-> TimeString(eh, em),
       date |-> [y |-> 2024, m |-> 1, d |-> 1, h |-> 0],
       isRecurringClass |-> FALSE, frequency |-> "none",
       endDate |-> [y |-> 2024, m |-> 1, d |-> 1, h |-> 0]]
      : sh \in CalcHours, sm \in CalcMinutes, eh \in CalcHours, em \in CalcMinutes }
    \cup
    { [exists |-> TRUE, maxCapacity |-> 1,
       startTime |-> t[1], endTime |-> t[2],
       date |-> dt, isRecurringClass |-> TRUE, frequency |-> f,
       endDate |-> DayAfter(dt, n, h)]
      : t \in CalcSeriesTimes, dt \in CalcDates, f \in Frequencies,
        n \in CalcDayOffsets, h \in CalcHourOffsets }

\* Recurring class documents whose frequency is not one of the enum's
\* spellings.  POST /classes rejects them and the schema's enum refuses to
\* save them: only a write made past the validation leaves such a document.
ForeignFrequencies == {"WEEKLY", "daily", "Yearly", "Fortnightly"}
ForeignClasses ==
    { [exists |-> TRUE, maxCapacity |-> 1,
       startTime |-> t[1], endTime |-> t[2],
       date |-> [y |-> 2024, m |-> 1, d |-> 1, h |-> 0],
       isRecurringClass |-> TRUE, frequency |-> f,
       endDate |-> DayAfter([y |-> 2024, m |-> 1, d |-> 1, h |-> 0], n, 0)]
      : t \in CalcSeriesTimes, f \in ForeignFrequencies, n \in {0, 14} }

\* The class whose duration is calculated.
FirstClass == CHOOSE c \in ClassIds : \A d \in ClassIds : c <= d

CalcInit ==
    /\ \E doc \in CalcClasses \cup ForeignClasses :
          classes = [c \in ClassIds |-> IF c = FirstClass THEN doc ELSE NoDoc]
    /\ attendees = [c \in ClassIds |-> << >>]
    /\ bookings = {}
    /\ remainingMinutes = [u \in Users |-> DefaultRemainingMinutes]
    /\ packages = [p \in PkgIds |-> NoDoc]
    /\ intents = [p \in PkgIds |-> "none"]
    /\ events = {}
    /\ req = [r \in Reqs |-> Idle]
    /\ creditCount = [p \in PkgIds |-> 0]

\* bookings.js 181-190: the duration of the class, kept in totalMinutes.
Calculate(r) ==
    /\ CanArrive(r)
    /\ req' = [req EXCEPT ![r] =
                  [Idle EXCEPT !.kind = "calc", !.pc = "done", !.classId = FirstClass,
                               !.total = TotalMinutes(classes[FirstClass])]]
    /\ UNCHANGED << classes, attendees, bookings, remainingMinutes, packages, intents,
                    events, creditCount >>

CalcNext == \E r \in Reqs : Calculate(r)

CalcSpec == CalcInit /\ [][CalcNext]_vars

(* ------------- bookings of a class stored without ordering ------------- *)

\* POST /classes checks neither that endTime follows startTime nor that
\* endDate follows date: class documents it stores for such bodies.
UnorderedClasses ==
    { [exists |-> TRUE, maxCapacity |-> 2,
       startTime |-> TimeString(11, 0), endTime |-> TimeString(10, 0),
       date |-> [y |-> 2024, m |-> 1, d |-> 1, h |-> 0],
       isRecurringClass |-> FALSE, frequency |-> "none",
       endDate |-> [y |-> 2024, m |-> 1, d |-> 1, h |-> 0]],
      [exists |-> TRUE, maxCapacity |-> 2,
       startTime |-> TimeString(10, 0), endTime |-> TimeString(11, 0),
       date |-> [y |-> 2024, m |-> 1, d |-> 15, h |-> 0],
       isRecurringClass |-> TRUE, frequency |-> "Weekly",
       endDate |-> [y |-> 2024, m |-> 1, d |-> 1, h |-> 0]],
      [exists |-> TRUE, maxCapacity |-> 2,
       startTime |-> TimeString(10, 0), endTime |-> TimeString(11, 0),
       date |-> [y |-> 2024, m |-> 1, d |-> 1, h |-> 0],
       isRecurringClass |-> TRUE, frequency |-> "Weekly",
       endDate |-> [y |-> 2024, m |-> 1, d |-> 1, h |-> 0]] }

UnorderedInit ==
    /\ \E doc \in UnorderedClasses :
          classes = [c \in ClassIds |-> IF c = FirstClass THEN doc ELSE NoDoc]
    /\ attendees = [c \in ClassIds |-> << >>]
    /\ bookings = {}
    /\ remainingMinutes = [u \in Users |-> DefaultRemainingMinutes]
    /\ packages = [p \in PkgIds |-> NoDoc]
    /\ intents = [p \in PkgIds |-> "none"]
    /\ events = {}
    /\ req = [r \in Reqs |-> Idle]
    /\ creditCount = [p \in PkgIds |-> 0]

UnorderedNext ==
    \/ \E r \in Reqs, u \in Users, c \in ClassIds : BookFindClass(r, u, c)
    \/ \E r \in Reqs : BookCheck(r)
    \/ \E r \in Reqs : BookSave(r)
    \/ \E r \in Reqs : BookDebit(r)
    \/ \E r \in Reqs : BookPush(r)

UnorderedSpec == UnorderedInit /\ [][UnorderedNext]_vars
PurchasedSpec == PurchasedInit /\ [][PurchasedNext]_vars
BookingSpec == Init /\ [][BookingNext]_vars
PaymentSpec == Init /\ [][PaymentNext]_vars
Spec == Init /\ [][Next]_vars

(* ============================== properties ============================= *)

BookReqs == { r \in Reqs : req[r].kind = "book" }
AllEffects == {"booking", "debit", "attendee"}

\* C1: in every reachable state the attendees list of every Class is no
\* longer than the Class's maxCapacity, whatever the interleaving of the
\* booking requests.
C1_CapacityNeverExceeded ==
    \A c \in ClassIds : classes[c].exists => Len(attendees[c]) <= classes[c].maxCapacity

\* C2: in every reachable state there is at most one Booking document for
\* each (userId, classId) pair.
C2_OneBookingPerPair ==
    \A a, b \in bookings : (a.userId = b.userId /\ a.classId = b.classId) => a = b

\* C3: the owner's remainingMinutes is credited at most once on account of
\* one Package, however often the webhook success event and the
\* client-confirmation call are processed for its payment intent.
C3_CreditedAtMostOnce ==
    \A p \in PkgIds : creditCount[p] <= 1

SuccessWebhooks(p) ==
    { r \in Reqs : /\ req[r].kind = "webhook"
                   /\ req[r].event = "payment_intent.succeeded"
                   /\ req[r].intent = p }
Confirmations(p) == { r \in Reqs : req[r].kind = "confirm" /\ req[r].intent = p }

\* Package p has received exactly one webhook success event and exactly one
\* client-confirmation call, and both handlers have run to their answer
\* (the webhook's is 200 received, the confirmation's 200 success).
BothCompleted(p) ==
    /\ PackageOfIntent(p) = {p}
    /\ Cardinality(SuccessWebhooks(p)) = 1
    /\ Cardinality(Confirmations(p)) = 1
    /\ \A r \in SuccessWebhooks(p) \cup Confirmations(p) :
          req[r].pc = "done" /\ req[r].resp = "200"

RECURSIVE SumOver(_, _)
SumOver(S, f) ==
    IF S = {} THEN 0
    ELSE LET x == CHOOSE y \in S : TRUE IN f[x] + SumOver(S \ {x}, f)

\* With payments alone, a balance is the sum of hours*60 over the credits
\* counted for the user's packages.
CreditsAreMinutes ==
    \A u \in Users :
        remainingMinutes[u] =
            SumOver({ p \in PkgIds : packages[p].exists /\ packages[p].userId = u },
                    [p \in PkgIds |-> IF packages[p].exists
                                      THEN creditCount[p] * packages[p].hours * 60 ELSE 0])

\* C4: once a Package has received one webhook success event and one
\* client-confirmation call for its payment intent, in either order or
\* interleaved, and both have completed, the owner's remainingMinutes has
\* increased by exactly hours*60 on its account.
C4_BothCompletedCreditsOnce ==
    /\ CreditsAreMinutes
    /\ \A p \in PkgIds : BothCompleted(p) => creditCount[p] = 1

C4_Witness ==
    \E p \in PkgIds :
        /\ BothCompleted(p)
        /\ remainingMinutes[packages[p].userId] = packages[p].hours * 60

\* C5: once the status of a Package is paid or failed, no later step
\* changes it.
C5_StatusTerminal ==
    [][ \A p \in PkgIds :
          (packages[p].exists /\ packages[p].status # "pending")
          => packages'[p].status = packages[p].status ]_vars

BookingPersistedBy(r) == \E b \in bookings : b.id = r

\* C6: after a booking request has finished, either all three of its
\* effects (Booking persisted, user appended to attendees, balance debited)
\* have been applied or none has.
C6_AllOrNothing ==
    \A r \in BookReqs :
        req[r].pc = "done" =>
            \/ /\ BookingPersistedBy(r)
               /\ req[r].applied = AllEffects
            \/ /\ ~BookingPersistedBy(r)
               /\ req[r].applied = {}

\* The minutes the Duration Calculator gives for a stored class.
BookedMinutes(cls) ==
    IF cls.isRecurringClass
    THEN calculateRecurringClassMinutes(
             cls, calculateMinutesBetweenTimes(cls.startTime, cls.endTime))
    ELSE calculateMinutesBetweenTimes(cls.startTime, cls.endTime)

HasBooking(u, c) == \E b \in bookings : b.userId = u /\ b.classId = c
StoresUnchanged == UNCHANGED << bookings, attendees, remainingMinutes >>

\* Request r runs the segment that starts at position pc.
Steps(r, pc) == req[r].kind = "book" /\ req[r].pc = pc /\ req'[r] # req[r]

\* C7: a booking request for a class whose attendees.length equals
\* maxCapacity, by a user with no booking for it, with no step of another
\* request between its reads and its checks, is answered 400 class full and
\* leaves attendees, the Bookings and remainingMinutes unchanged.
C7_FullClassRejected ==
    [][ \A r \in Reqs :
          ( /\ Steps(r, "findBooking")
            /\ req[r].snap = attendees[req[r].classId]
            /\ Len(attendees[req[r].classId]) = classes[req[r].classId].maxCapacity
            /\ ~HasBooking(req[r].userId, req[r].classId) )
          => /\ req'[r].pc = "done"
             /\ req'[r].resp = "400 class full"
             /\ StoresUnchanged ]_vars

C7_Witness ==
    \E r \in BookReqs :
        /\ req[r].pc = "done" /\ req[r].resp = "400 class full"
        /\ Len(attendees[req[r].classId]) = classes[req[r].classId].maxCapacity
        /\ ~HasBooking(req[r].userId, req[r].classId)

SamePair(r, q) ==
    /\ req[r].kind = "book" /\ req[q].kind = "book"
    /\ req[r].userId = req[q].userId /\ req[r].classId = req[q].classId

Occurrences(seq, x) == Cardinality({ i \in 1..Len(seq) : seq[i] = x })

\* C8: when a user's booking request for a class has succeeded and the same
\* user then requests the same class again, the second request is answered
\* 400 already booked; the user's balance has been debited once, by the
\* first booking's minutesSpent, and the user is in attendees once.
C8_SecondBookingRejected ==
    [][ \A r1, r2 \in Reqs :
          ( /\ r1 # r2
            /\ SamePair(r1, r2)
            /\ req[r1].pc = "done" /\ req[r1].resp = "201"
            /\ Steps(r2, "findBooking") )
          => /\ req'[r2].pc = "done"
             /\ req'[r2].resp = "400 already booked"
             /\ StoresUnchanged
             /\ (\A q \in BookReqs \ {r1, r2} : req[q].userId # req[r1].userId)
                => /\ remainingMinutes'[req[r1].userId] =
                          DefaultRemainingMinutes - BookedMinutes(classes[req[r1].classId])
                   /\ Occurrences(attendees'[req[r1].classId], req[r1].userId) = 1
                   /\ Cardinality({ b \in bookings' : /\ b.userId = req[r1].userId
                                                      /\ b.classId = req[r1].classId }) = 1
       ]_vars

C8_Witness ==
    \E r1, r2 \in BookReqs :
        /\ r1 # r2 /\ SamePair(r1, r2)
        /\ req[r1].pc = "done" /\ req[r1].resp = "201"
        /\ req[r2].pc = "done" /\ req[r2].resp = "400 already booked"
        /\ Occurrences(attendees[req[r1].classId], req[r1].userId) = 1

Rejections == {"404 class not found", "400 already booked", "400 class full"}

\* C9: a booking request checks class-exists, not-already-booked, not-full
\* in this order and reports the first that fails: 404 for a missing class,
\* 400 already booked for an existing booking even when the class is full
\* as well, otherwise 400 class full; a rejected request leaves the
\* Bookings, attendees and remainingMinutes unchanged.
C9_PreconditionOrder ==
    [][ \A r \in Reqs :
          /\ (req[r].pc = "idle" /\ req'[r].kind = "book")
             => IF classes[req'[r].classId].exists
                THEN req'[r].pc = "findBooking"
                ELSE req'[r].pc = "done" /\ req'[r].resp = "404 class not found"
          /\ Steps(r, "findBooking")
             => LET booked == HasBooking(req[r].userId, req[r].classId)
                    full == Len(req[r].snap) >= classes[req[r].classId].maxCapacity
                IN  /\ booked => req'[r].resp = "400 already booked"
                    /\ (~booked /\ full) => req'[r].resp = "400 class full"
                    /\ (~booked /\ ~full) => req'[r].pc = "saveBooking"
          /\ (req[r].resp = "none" /\ req'[r].resp \in Rejections) => StoresUnchanged
       ]_vars

C9_Witness ==
    \E r \in BookReqs :
        /\ req[r].pc = "done" /\ req[r].resp = "400 already booked"
        /\ Len(attendees[req[r].classId]) >= classes[req[r].classId].maxCapacity

\* C10: a booking request that passes the three preconditions and meets no
\* persistence failure creates exactly one Booking whose minutesSpent is the
\* Duration Calculator's result for the class, appends the user once to the
\* class's attendees and takes exactly that minutesSpent from the user's
\* remainingMinutes; no other balance and no other attendees list changes.
C10_SuccessfulBooking ==
    [][ \A r \in Reqs :
          LET u == req[r].userId
              c == req[r].classId
              booking == [id |-> r, userId |-> u, classId |-> c,
                          minutesSpent |-> BookedMinutes(classes[c])]
          IN  /\ (Steps(r, "saveBooking") /\ req'[r].pc = "debit")
                 => /\ booking \notin bookings
                    /\ bookings' = bookings \cup {booking}
                    /\ UNCHANGED << attendees, remainingMinutes >>
              /\ (Steps(r, "debit") /\ req'[r].pc = "push")
                 => /\ remainingMinutes' =
                          [remainingMinutes EXCEPT ![u] = @ - booking.minutesSpent]
                    /\ UNCHANGED << attendees, bookings >>
              /\ (Steps(r, "push") /\ req'[r].resp = "201")
                 => /\ attendees' = [attendees EXCEPT ![c] = Append(@, u)]
                    /\ UNCHANGED << bookings, remainingMinutes >>
                    /\ { b \in bookings : b.id = r } = {booking}
                    /\ req'[r].applied = AllEffects
              /\ (req[r].kind = "book" /\ req[r].resp = "none" /\ req'[r].resp = "201")
                 => req[r].pc = "push"
       ]_vars

C10_Witness ==
    \E r \in BookReqs :
        /\ req[r].pc = "done" /\ req[r].resp = "201"
        /\ classes[req[r].classId].isRecurringClass
        /\ \E b \in bookings :
              /\ b.id = r
              /\ b.minutesSpent = BookedMinutes(classes[req[r].classId])
              /\ b.minutesSpent #
                    calculateMinutesBetweenTimes(classes[req[r].classId].startTime,
                                                 classes[req[r].classId].endTime)

\* Handler r of the given kind runs the segment that starts at position pc.
Runs(r, kind, pc) == req[r].kind = kind /\ req[r].pc = pc /\ req'[r] # req[r]

\* C11: a validly signed payment_intent.succeeded event whose payment-intent
\* id matches a pending Package sets the Package's status to paid and
\* increases the owner's remainingMinutes by hours*60.
C11_WebhookSuccessCredits ==
    [][ \A r \in Reqs :
          LET p == req[r].intent
              owner == packages[p].userId
          IN  /\ (Runs(r, "webhook", "whSave") /\ req[r].snap = << "pending" >>
                    /\ req'[r].pc = "whCredit")
                 => packages'[p].status = "paid"
              /\ (Runs(r, "webhook", "whCredit") /\ req'[r].resp = "200")
                 => remainingMinutes'[owner] =
                        remainingMinutes[owner] + packages[p].hours * 60
       ]_vars

\* C12: a client-confirmation call first asks the provider for the payment
\* intent.  When the provider reports succeeded and a Package with that
\* payment-intent id exists, the handler saves the Package as paid (a
\* Package it read as not yet paid is paid after its save), adds hours*60
\* to the owner's remainingMinutes and answers 200; when the provider
\* reports any other status it answers 400 and changes neither a Package
\* nor a balance.
C12_ConfirmationVerifies ==
    [][ \A r \in Reqs :
          /\ (req[r].pc = "idle" /\ req'[r].kind = "confirm")
             => LET status == intents[req'[r].intent]
                IN  /\ status \notin {"none", "succeeded"}
                       => /\ req'[r].pc = "done" /\ req'[r].resp = "400"
                          /\ UNCHANGED << packages, remainingMinutes >>
                    /\ status = "succeeded" => req'[r].pc = "cfFind"
                    /\ req'[r].resp = "400" => status \notin {"none", "succeeded"}
          /\ (Runs(r, "confirm", "cfFind") /\ PackageOfIntent(req[r].intent) # {})
             => req'[r].pc = "cfSave"
          /\ (Runs(r, "confirm", "cfSave") /\ req'[r].pc = "cfCredit"
                /\ req[r].snap # << "paid" >>)
             => packages'[req[r].intent].status = "paid"
          /\ (Runs(r, "confirm", "cfCredit") /\ req'[r].resp = "200")
             => remainingMinutes' =
                   [remainingMinutes EXCEPT ![packages[req[r].intent].userId] =
                       @ + packages[req[r].intent].hours * 60]
          /\ (req[r].kind = "confirm" /\ req[r].resp = "none" /\ req'[r].resp = "200")
             => req[r].pc = "cfCredit"
       ]_vars

C12_Witness ==
    \E r1, r2 \in Reqs :
        /\ req[r1].kind = "confirm" /\ req[r1].resp = "400"
        /\ req[r2].kind = "confirm" /\ req[r2].resp = "200"
        /\ req[r1].intent = req[r2].intent
        /\ packages[req[r2].intent].status = "paid"
        /\ remainingMinutes[packages[req[r2].intent].userId] =
              packages[req[r2].intent].hours * 60


\* A request slot that receives a webhook event of the given type now.
Arrives(r, event) ==
    req[r].pc = "idle" /\ req'[r].kind = "webhook" /\ req'[r].event = event

\* C13: a signed payment_intent.payment_failed event for a pending Package
\* marks that Package failed when its update is stored (and leaves it as it
\* was when the update fails); it changes no user's remainingMinutes and no
\* other Package.
C13_FailureEventFrame ==
    [][ \A r \in Reqs :
          LET p == req'[r].intent
          IN  (/\ Arrives(r, "payment_intent.payment_failed")
               /\ packages[p].exists /\ packages[p].status = "pending"
               /\ packages[p].stripePaymentIntentId = p)
              => /\ remainingMinutes' = remainingMinutes
                 /\ \A q \in PkgIds \ {p} : packages'[q] = packages[q]
                 /\ req'[r].resp = "200"
                      => packages'[p] = [packages[p] EXCEPT !.status = "failed"]
                 /\ req'[r].resp # "200" => packages'[p] = packages[p]
                 /\ req'[r].resp \in {"200", "500"}
      ]_vars

\* One Package was marked failed by a failure event answered 200 while the
\* other Package is still pending and no balance has moved.
C13_Witness ==
    \E r \in Reqs, p \in PkgIds, q \in PkgIds :
        /\ p # q
        /\ req[r].kind = "webhook" /\ req[r].event = "payment_intent.payment_failed"
        /\ req[r].intent = p /\ req[r].resp = "200"
        /\ packages[p].status = "failed"
        /\ packages[q].exists /\ packages[q].status = "pending"
        /\ \A u \in Users : remainingMinutes[u] = DefaultRemainingMinutes

\* C14: a webhook request whose signature fails verification is answered 400
\* and changes no stored state: no Package, no balance, no class, no booking.
C14_BadSignatureRejected ==
    [][ \A r \in Reqs :
          (req[r].pc = "idle" /\ req'[r].kind = "webhook" /\ req'[r].event = "none")
          => /\ req'[r].pc = "done" /\ req'[r].resp = "400"
             /\ UNCHANGED << packages, remainingMinutes, classes, attendees,
                             bookings >>
      ]_vars

\* An unverified request was answered 400 while a pending Package with a
\* payment-intent id, which a forged payload could name, is stored.
C14_Witness ==
    \E r \in Reqs, p \in PkgIds :
        /\ req[r].kind = "webhook" /\ req[r].event = "none" /\ req[r].resp = "400"
        /\ packages[p].exists /\ packages[p].status = "pending"
        /\ packages[p].stripePaymentIntentId = p

ViaWebhook(p) ==
    << SavePaid(p, packages[p].status)[p].status,
       WebhookCredit(packages[p].userId, packages[p].hours) >>

ViaConfirmation(p) ==
    << SavePaid(p, packages[p].status)[p].status,
       ConfirmCreditUser(packages[p].userId, packages[p].hours) >>

\* C16: from any state with a pending Package, one webhook success event and
\* one client confirmation for its payment intent leave the same Package
\* status and the same balances.
C16_EntryPointsAgree ==
    \A p \in PkgIds :
        (/\ packages[p].exists /\ packages[p].status = "pending"
         /\ packages[p].stripePaymentIntentId = p /\ intents[p] = "succeeded")
        => ViaWebhook(p) = ViaConfirmation(p)

\* C17: a Booking's minutesSpent is the total computed when it is created,
\* and no later step (another booking of the same or of another class, a
\* class creation) changes or removes a stored Booking.
C17_MinutesSpentFixed ==
    [][ /\ \A b \in bookings :
             /\ b \in bookings'
             /\ \A n \in bookings' : n.id = b.id => n.minutesSpent = b.minutesSpent
        /\ \A n \in bookings' \ bookings : n.minutesSpent = req[n.id].total
      ]_vars

\* A user holds two Bookings with different minutes: the first was stored
\* before the request that made the second arrived.
C17_Witness ==
    \E b \in bookings, n \in bookings :
        /\ b.userId = n.userId /\ b.classId # n.classId
        /\ b.minutesSpent # n.minutesSpent
        /\ req[b.id].resp = "201" /\ req[n.id].resp = "201"

\* The class whose duration was calculated, and the minutes between two
\* times of day given as numbers.
Calculated(r) == req[r].kind = "calc" /\ req[r].pc = "done"
WallClock(sh, sm, eh, em) == (eh * 60 + em) - (sh * 60 + sm)

\* C18: for HH:MM times start < end of one day, calculateMinutesBetweenTimes
\* returns (endHour*60 + endMinute) - (startHour*60 + startMinute), which is
\* strictly positive.
C18_WallClockDifference ==
    \A r \in Reqs, sh \in CalcHours, sm \in CalcMinutes, eh \in CalcHours, em \in CalcMinutes :
        LET cls == classes[FirstClass]
        IN  (/\ Calculated(r) /\ ~cls.isRecurringClass
             /\ cls.startTime = TimeString(sh, sm) /\ cls.endTime = TimeString(eh, em)
             /\ sh * 60 + sm < eh * 60 + em)
            => /\ req[r].total = WallClock(sh, sm, eh, em)
               /\ req[r].total > 0

\* 09:30 to 10:05, where the minute parts alone differ by -25, gives 35.
C18_Witness ==
    \E r \in Reqs :
        /\ Calculated(r) /\ ~classes[FirstClass].isRecurringClass
        /\ classes[FirstClass].startTime = << "0", "9", ":", "3", "0" >>
        /\ classes[FirstClass].endTime = << "1", "0", ":", "0", "5" >>
        /\ req[r].total = 35

\* The minutes of one class of a recurring series, from its two times.
SingleOf(cls) ==
    CHOOSE single \in 0..(24 * 60) :
        \E sh \in CalcHours, sm \in CalcMinutes, eh \in CalcHours, em \in CalcMinutes :
            /\ cls.startTime = TimeString(sh, sm) /\ cls.endTime = TimeString(eh, em)
            /\ single = WallClock(sh, sm, eh, em)

\* k is the ceiling of days / period.
IsCeiling(k, days, period) == period * (k - 1) < days /\ days <= period * k

\* C19: for a Weekly (period 7) or Bi-weekly (period 14) class whose endDate
\* lies n days and h hours after its date, the calculator returns
\* ceil(days / period) * single with days = ceil of the distance in days;
\* Weekly from 2024-01-01 to 2024-01-15 with single 60 gives 120.
C19_WeeklyOccurrences ==
    \A r \in Reqs, n \in CalcDayOffsets, h \in CalcHourOffsets :
        LET cls == classes[FirstClass]
            days == IF h > 0 THEN n + 1 ELSE n
            period == IF cls.frequency = "Weekly" THEN 7 ELSE 14
        IN  (/\ Calculated(r) /\ cls.isRecurringClass
             /\ cls.frequency \in {"Weekly", "Bi-weekly"}
             /\ cls.endDate = DayAfter(cls.date, n, h))
            => \E k \in 0..days :
                  IsCeiling(k, days, period) /\ req[r].total = k * SingleOf(cls)

\* The example of the claim: Weekly, 2024-01-01 to 2024-01-15, 10:00-11:00.
C19_Witness ==
    \E r \in Reqs :
        LET cls == classes[FirstClass]
        IN  /\ Calculated(r) /\ cls.isRecurringClass /\ cls.frequency = "Weekly"
            /\ cls.date = [y |-> 2024, m |-> 1, d |-> 1, h |-> 0]
            /\ cls.endDate = [y |-> 2024, m |-> 1, d |-> 15, h |-> 0]
            /\ cls.startTime = << "1", "0", ":", "0", "0" >>
            /\ cls.endTime = << "1", "1", ":", "0", "0" >>
            /\ req[r].total = 120

\* C20: for a Monthly class the calculator returns
\* (yearsDiff * 12 + monthsDiff + 1) * single, from the calendar year and
\* month of endDate and of the class date alone, whatever the days of month.
C20_MonthlyOccurrences ==
    \A r \in Reqs :
        LET cls == classes[FirstClass]
            yearsDiff == cls.endDate.y - cls.date.y
            monthsDiff == cls.endDate.m - cls.date.m
        IN  (Calculated(r) /\ cls.isRecurringClass /\ cls.frequency = "Monthly")
            => req[r].total = (yearsDiff * 12 + monthsDiff + 1) * SingleOf(cls)

\* The example of the claim: Monthly, 2024-01-15 to 2024-03-10, gives three
\* occurrences of a 60-minute class.
C20_Witness ==
    \E r \in Reqs :
        LET cls == classes[FirstClass]
        IN  /\ Calculated(r) /\ cls.isRecurringClass /\ cls.frequency = "Monthly"
            /\ cls.date = [y |-> 2024, m |-> 1, d |-> 15, h |-> 0]
            /\ cls.endDate = [y |-> 2024, m |-> 3, d |-> 10, h |-> 0]
            /\ cls.startTime = << "1", "0", ":", "0", "0" >>
            /\ cls.endTime = << "1", "1", ":", "0", "0" >>
            /\ req[r].total = 3 * 60

\* C21: for a Daily class whose endDate lies n days and h hours after its
\* date, the calculator returns (days + 1) * single with days the ceiling of
\* the distance in days: the first and the last day both count.
C21_DailyOccurrences ==
    \A r \in Reqs, n \in CalcDayOffsets, h \in CalcHourOffsets :
        LET cls == classes[FirstClass]
            days == IF h > 0 THEN n + 1 ELSE n
        IN  (/\ Calculated(r) /\ cls.isRecurringClass /\ cls.frequency = "Daily"
             /\ cls.endDate = DayAfter(cls.date, n, h))
            => req[r].total = (days + 1) * SingleOf(cls)

\* Daily from 2023-12-25 to 2024-01-01, seven days on across the year end:
\* eight classes of 60 minutes.
C21_Witness ==
    \E r \in Reqs :
        LET cls == classes[FirstClass]
        IN  /\ Calculated(r) /\ cls.isRecurringClass /\ cls.frequency = "Daily"
            /\ cls.date = [y |-> 2023, m |-> 12, d |-> 25, h |-> 0]
            /\ cls.endDate = [y |-> 2024, m |-> 1, d |-> 1, h |-> 0]
            /\ cls.startTime = << "1", "0", ":", "0", "0" >>
            /\ cls.endTime = << "1", "1", ":", "0", "0" >>
            /\ req[r].total = 8 * 60

\* C22: a recurring class whose frequency is, in any letter case, none of
\* daily, weekly, bi-weekly, monthly is charged the minutes of one class;
\* a known frequency in another letter case is charged as that frequency.
C22_UnknownFrequencyIsSingle ==
    \A r \in Reqs :
        LET cls == classes[FirstClass]
            days == IF cls.endDate.y = cls.date.y /\ cls.endDate.m = cls.date.m
                    THEN cls.endDate.d - cls.date.d ELSE -1
        IN  (Calculated(r) /\ cls.isRecurringClass /\ cls \in ForeignClasses)
            => /\ cls.frequency \in {"Yearly", "Fortnightly"}
                    => req[r].total = SingleOf(cls)
               /\ cls.frequency = "daily" => req[r].total = (days + 1) * SingleOf(cls)
               /\ cls.frequency = "WEEKLY"
                    => \E k \in 0..days :
                          IsCeiling(k, days, 7) /\ req[r].total = k * SingleOf(cls)

\* A Yearly class that runs for fourteen days is charged one class of 60.
C22_Witness ==
    \E r \in Reqs :
        LET cls == classes[FirstClass]
        IN  /\ Calculated(r) /\ cls.isRecurringClass /\ cls.frequency = "Yearly"
            /\ cls.endDate = [y |-> 2024, m |-> 1, d |-> 15, h |-> 0]
            /\ cls.startTime = << "1", "0", ":", "0", "0" >>
            /\ req[r].total = 60

\* C23: the booking handler has no floor check.  A request that passes the
\* three preconditions goes on to save the Booking also when the user's
\* balance is 0 or less, its debit subtracts the total also when the balance
\* is smaller than the total, and no request is refused for its balance; a
\* negative remainingMinutes is reachable.
C23_NoFloorCheck ==
    [][ \A r \in Reqs :
          LET u == req[r].userId
              c == req[r].classId
          IN  /\ (/\ Steps(r, "findBooking") /\ remainingMinutes[u] <= 0
                  /\ ~HasBooking(u, c)
                  /\ Len(req[r].snap) < classes[c].maxCapacity)
                 => req'[r].pc = "saveBooking"
              /\ (/\ Steps(r, "debit") /\ remainingMinutes[u] < req[r].total
                  /\ req'[r].pc = "push")
                 => /\ remainingMinutes'[u] = remainingMinutes[u] - req[r].total
                    /\ remainingMinutes'[u] < 0
              /\ req'[r].kind = "book"
                 => req'[r].resp \in
                       {"none", "404 class not found", "400 already booked",
                        "400 class full", "201", "500"}
      ]_vars

\* A user who had no minutes holds a Booking, was answered 201 and now has
\* a negative balance.
C23_Witness ==
    \E r \in BookReqs :
        /\ req[r].pc = "done" /\ req[r].resp = "201"
        /\ \E b \in bookings : b.id = r /\ b.minutesSpent > 0
        /\ remainingMinutes[req[r].userId] < 0

\* No booking request is between its arrival and its answer.
NoBookingInProgress == \A r \in Reqs : req[r].kind = "book" => req[r].pc = "done"

\* C24: whenever no booking request is in progress, every attendees list is
\* free of duplicates, holds a user exactly when a Booking of that user for
\* that class exists, and is as long as the class has Bookings.
C24_AttendeesMatchBookings ==
    NoBookingInProgress =>
        \A c \in ClassIds :
            /\ \A i, j \in 1..Len(attendees[c]) :
                  attendees[c][i] = attendees[c][j] => i = j
            /\ \A u \in Users :
                  (\E i \in 1..Len(attendees[c]) : attendees[c][i] = u) <=> HasBooking(u, c)
            /\ Len(attendees[c]) = Cardinality({ b \in bookings : b.classId = c })

\* No request of any kind is between its arrival and its answer.
Quiescent == \A r \in Reqs : req[r].pc \in {"idle", "done"}

PaidMinutes(u) ==
    SumOver({ p \in PkgIds : /\ packages[p].exists /\ packages[p].userId = u
                             /\ packages[p].status = "paid" },
            [p \in PkgIds |-> IF packages[p].exists THEN 60 * packages[p].hours ELSE 0])

SpentMinutes(u) ==
    SumOver({ b \in bookings : b.userId = u }, [b \in bookings |-> b.minutesSpent])

\* C25: whenever no request is in progress, each user's remainingMinutes is
\* the initial 0 plus 60 * hours over the user's paid Packages minus
\* minutesSpent over the user's Bookings.
C25_MinutesConserved ==
    Quiescent =>
        \A u \in Users :
            remainingMinutes[u] = DefaultRemainingMinutes + PaidMinutes(u) - SpentMinutes(u)

\* C26: the minutesSpent a booking records and debits is never negative,
\* so with bookings alone no balance rises above its initial value, also
\* for a class whose endTime precedes its startTime or whose endDate
\* precedes its date.
C26_ChargeNeverNegative ==
    /\ \A b \in bookings : b.minutesSpent >= 0
    /\ \A u \in Users : remainingMinutes[u] <= DefaultRemainingMinutes

\* C27: a recurring class with endDate on or after its date and positive
\* single-class minutes is charged at least the minutes of one class, for
\* each of Daily, Weekly, Bi-weekly and Monthly.
C27_AtLeastOneOccurrence ==
    \A r \in Reqs :
        LET cls == classes[FirstClass]
        IN  (/\ Calculated(r) /\ cls \in CalcClasses /\ cls.isRecurringClass
             /\ cls.frequency \in Frequencies /\ SingleOf(cls) > 0)
            => req[r].total >= SingleOf(cls)

\* No stored Package carries payment-intent id p.
NoPackageFor(p) ==
    \A q \in PkgIds : packages[q].exists => packages[q].stripePaymentIntentId # p

\* C28: a client confirmation for a payment intent the provider reports as
\* succeeded, for which no Package with that intent id is stored, changes
\* no Package and no balance and is answered 500, never 200.
C28_ConfirmWithoutPackage ==
    [][ \A r \in Reqs :
          /\ (/\ req[r].pc = "idle" /\ req'[r].kind = "confirm"
              /\ intents[req'[r].intent] = "succeeded")
             => /\ req'[r].pc = "cfFind"
                /\ UNCHANGED << packages, remainingMinutes >>
          /\ (Runs(r, "confirm", "cfFind") /\ NoPackageFor(req[r].intent))
             => /\ req'[r].pc = "done" /\ req'[r].resp = "500"
                /\ UNCHANGED << packages, remainingMinutes >>
      ]_vars

\* The payment of an intent whose id never reached its Package succeeded;
\* the confirmation was answered 500, the Package is still pending and the
\* balances are untouched.
C28_Witness ==
    \E r \in Reqs :
        /\ req[r].kind = "confirm" /\ req[r].pc = "done" /\ req[r].resp = "500"
        /\ intents[req[r].intent] = "succeeded" /\ NoPackageFor(req[r].intent)
        /\ \E q \in PkgIds : packages[q].exists /\ packages[q].status = "pending"
        /\ \A u \in Users : remainingMinutes[u] = DefaultRemainingMinutes

\* C29: a step of a confirmation or webhook handler changes no balance but
\* that of the owner of the Package found by the payment-intent id; a
\* confirming caller who is not the owner keeps their balance.
C29_CreditGoesToOwner ==
    [][ \A r \in Reqs :
          (req'[r] # req[r] /\ req'[r].kind \in {"confirm", "webhook"})
          => \A u \in Users :
                remainingMinutes'[u] # remainingMinutes[u]
                => /\ req[r].intent \in PkgIds
                   /\ packages[req[r].intent].exists
                   /\ packages[req[r].intent].stripePaymentIntentId = req[r].intent
                   /\ u = packages[req[r].intent].userId
      ]_vars

\* A user confirmed the payment of another user's Package: the owner has
\* the minutes, the caller has none.
C29_Witness ==
    \E r \in Reqs :
        LET owner == packages[req[r].intent].userId
        IN  /\ req[r].kind = "confirm" /\ req[r].pc = "done" /\ req[r].resp = "200"
            /\ req[r].userId # owner
            /\ remainingMinutes[owner] = packages[req[r].intent].hours * 60
            /\ remainingMinutes[req[r].userId] = DefaultRemainingMinutes

\* No webhook or confirmation handler is between its arrival and its answer.
NoPaymentInProgress ==
    \A r \in Reqs : req[r].kind \in {"webhook", "confirm"} => req[r].pc = "done"

\* C30: whenever no payment request is in progress, every Package with
\* status paid has had hours * 60 added to its owner's remainingMinutes at
\* least once.
C30_PaidImpliesCredited ==
    NoPaymentInProgress =>
        \A p \in PkgIds :
            (packages[p].exists /\ packages[p].status = "paid") => creditCount[p] >= 1

====
